---- MODULE Spec2Model ----
(***************************************************************************)
(* Crossover calculation utility (calculator.js and its earlier            *)
(* four-topology variant).                                                 *)
(*                                                                         *)
(* The module's functions are pure: the state of the model is one call,    *)
(* the function called, its arguments and what it returned.  JavaScript    *)
(* numbers are IEEE-754 binary64 values; the arithmetic of the functions   *)
(* is modelled bit-exactly for positive normal numbers: a number is a      *)
(* record [m, e] of value m * 2^e with 2^52 <= m < 2^53, m held as a       *)
(* little-endian sequence of 15-bit limbs, and every operation rounds to   *)
(* nearest, ties to even, as the hardware does.  Number.toFixed(2) is      *)
(* modelled by the integer number of hundredths it prints.                 *)
(***************************************************************************)
EXTENDS Integers, Sequences, FiniteSets, TLC

(***************************************************************************)
(* The arithmetic unit.  Natural numbers of any size are little-endian     *)
(* sequences of 15-bit limbs (the B operators); on top of them sit the     *)
(* binary64 operations the functions use: Num (an integer literal), Mul,   *)
(* Div, Sub, Less and toFixed2 (Number.toFixed(2)).                        *)
(* Every operator is an entry of the recursive operator Run below, which   *)
(* takes a call: the operator's name followed by its arguments, and takes  *)
(* the value of every argument before it runs the operator.                *)
(***************************************************************************)
Base == 2 ^ 15

Min(a, b) == IF a < b THEN a ELSE b

RECURSIVE Run(_)

\* a without its leading zero limbs
BNorm(a) == Run(<<"BNorm", a>>)

BOfInt(n) == Run(<<"BOfInt", n>>)

BToInt(a) == Run(<<"BToInt", a>>)

\* a + b + c for a carry c
BAddC(a, b, c) == Run(<<"BAddC", a, b, c>>)

BAdd(a, b) == BAddC(a, b, 0)

\* a - b - c for a >= b + c, not normalised
BSubC(a, b, c) == Run(<<"BSubC", a, b, c>>)

BSub(a, b) == BNorm(BSubC(a, b, 0))

BCmpFrom(a, b, i) == Run(<<"BCmpFrom", a, b, i>>)

\* -1, 0 or 1 as a <, =, > b (both normalised)
BCmp(a, b) == Run(<<"BCmp", a, b>>)

\* a * s + c for a limb s
BMulSmall(a, s, c) == Run(<<"BMulSmall", a, s, c>>)

\* a * Base^n
BShiftLimbs(a, n) == Run(<<"BShiftLimbs", a, n>>)

BMul(a, b) == Run(<<"BMul", a, b>>)

\* the number of bits of a limb
IntBitLen(n) == Run(<<"IntBitLen", n>>)

BBitLen(a) == Run(<<"BBitLen", a>>)

\* a * 2^k
BShl(a, k) == Run(<<"BShl", a, k>>)

\* floor(a / 2^k)
BShr(a, k) == Run(<<"BShr", a, k>>)

\* bit k of a (bit 0 is the lowest)
BBit(a, k) == Run(<<"BBit", a, k>>)

\* the low k bits of a are all zero
BLowZero(a, k) == Run(<<"BLowZero", a, k>>)

\* one digit of a long division by d, whose top limb is at least Base / 2:
\* for r < d * Base, <<q, r - q * d>> with q = floor(r / d), q0 >= q a guess
BDivCorrect(r, d, q0) == Run(<<"BDivCorrect", r, d, q0>>)

BDivDigit(r, d) == Run(<<"BDivDigit", r, d>>)

\* <<floor(r * Base^k / d), remainder>> for r < d, the quotient's digits
\* prepended to q (most significant digit computed first)
BDivFrac(r, d, k, q) == Run(<<"BDivFrac", r, d, k, q>>)

\* the double nearest N * 2^e (ties to even); sticky: the exact value is a
\* little more than N * 2^e
RoundDouble(N, e, sticky) == Run(<<"RoundDouble", N, e, sticky>>)

\* the double of an integer literal n > 0
Num(n) == RoundDouble(BOfInt(n), 0, FALSE)

\* x * y
Mul(x, y) == Run(<<"Mul", x, y>>)

\* x / y
Div(x, y) == Run(<<"Div", x, y>>)

\* x < y
Less(x, y) == Run(<<"Less", x, y>>)

\* x - y for x > y
Sub(x, y) == Run(<<"Sub", x, y>>)

\* x.toFixed(2) as a number of hundredths: floor(100 * x + 1/2)
toFixed2(x) == Run(<<"toFixed2", x>>)

\* a decimal literal n/d, such as 1.333 = Dec(1333, 1000): the double nearest
Dec(n, d) == Div(Num(n), Num(d))

\* Math.PI
MathPI == [m |-> <<11544, 10376, 2029, 201>>, e |-> -51]

\* Math.sqrt(2)
Sqrt2 == [m |-> <<15309, 19710, 633, 181>>, e |-> -52]

\* Math.sqrt(3)
Sqrt3 == [m |-> <<19626, 20656, 23019, 221>>, e |-> -52]

\* the number 0, and an argument that was not passed
Zero == [m |-> <<>>, e |-> 0]

Undefined == [m |-> <<>>, e |-> -1]

\* ToBoolean of a number or of undefined
Truthy(x) == x.m # <<>>

\* Math.pow(10, db / 20) for db = 1, 2, ... decibels, correctly rounded
PowTable == <<
  [m |-> <<17462,16087,20262,143>>, e |-> -52],
  [m |-> <<9732,29176,4667,161>>, e |-> -52],
  [m |-> <<28176,28624,26371,180>>, e |-> -52],
  [m |-> <<24659,28072,28387,202>>, e |-> -52],
  [m |-> <<18190,14504,20308,227>>, e |-> -52],
  [m |-> <<14511,23223,12896,255>>, e |-> -52],
  [m |-> <<7813,16816,9114,143>>, e |-> -51],
  [m |-> <<19551,21417,24927,160>>, e |-> -51],
  [m |-> <<5476,13142,12337,180>>, e |-> -51],
  [m |-> <<23379,30132,12640,202>>, e |-> -51],
  [m |-> <<19007,2902,2640,227>>, e |-> -51],
  [m |-> <<28127,16036,25840,254>>, e |-> -51],
  [m |-> <<28021,30907,30760,142>>, e |-> -50],
  [m |-> <<4838,1536,12449,160>>, e |-> -50],
  [m |-> <<17958,5702,31104,179>>, e |-> -50],
  [m |-> <<2455,9321,29699,201>>, e |-> -50],
  [m |-> <<22124,19269,17781,226>>, e |-> -50],
  [m |-> <<13634,7554,6063,254>>, e |-> -50],
  [m |-> <<18030,23544,19665,142>>, e |-> -49],
  [m |-> <<0,0,0,160>>, e |-> -49],
  [m |-> <<13637,3725,17136,179>>, e |-> -49],
  [m |-> <<12166,28278,14026,201>>, e |-> -49],
  [m |-> <<2450,27589,196,226>>, e |-> -49],
  [m |-> <<30822,26898,19100,253>>, e |-> -49],
  [m |-> <<11369,25449,8596,142>>, e |-> -48],
  [m |-> <<21358,14514,20348,159>>, e |-> -48],
  [m |-> <<9768,4636,3201,179>>, e |-> -48],
  [m |-> <<32629,18579,31159,200>>, e |-> -48],
  [m |-> <<23228,24619,15421,225>>, e |-> -48],
  [m |-> <<29223,4897,32185,252>>, e |-> -48],
  [m |-> <<3687,1814,30322,141>>, e |-> -47],
  [m |-> <<1197,10023,7958,159>>, e |-> -47],
  [m |-> <<26832,5866,22067,178>>, e |-> -47],
  [m |-> <<6048,10112,15561,200>>, e |-> -47],
  [m |-> <<6063,7128,30688,224>>, e |-> -47],
  [m |-> <<11260,3459,12548,252>>, e |-> -47],
  [m |-> <<17925,16139,19305,141>>, e |-> -46],
  [m |-> <<16712,17009,28365,158>>, e |-> -46],
  [m |-> <<22538,4854,8198,178>>, e |-> -46],
  [m |-> <<0,0,0,200>>, e |-> -46],
  [m |-> <<25234,4656,13228,224>>, e |-> -46],
  [m |-> <<31592,18963,25725,251>>, e |-> -46],
  [m |-> <<5627,859,8315,141>>, e |-> -45],
  [m |-> <<27459,427,16034,158>>, e |-> -45],
  [m |-> <<22403,31811,27129,177>>, e |-> -45],
  [m |-> <<10310,18143,17243,199>>, e |-> -45],
  [m |-> <<12210,13987,28577,223>>, e |-> -45],
  [m |-> <<32595,15032,6181,251>>, e |-> -45],
  [m |-> <<10424,19483,30118,140>>, e |-> -44],
  [m |-> <<5977,23541,3731,158>>, e |-> -44],
  [m |-> <<20990,18651,13326,177>>, e |-> -44],
  [m |-> <<26072,28912,1755,199>>, e |-> -44],
  [m |-> <<17156,31909,11199,223>>, e |-> -44],
  [m |-> <<7564,20832,19451,250>>, e |-> -44],
  [m |-> <<3789,4455,19180,140>>, e |-> -43],
  [m |-> <<2939,18546,24226,157>>, e |-> -43],
  [m |-> <<14214,28366,32323,176>>, e |-> -43],
  [m |-> <<29081,29453,19072,198>>, e |-> -43],
  [m |-> <<11792,22452,26631,222>>, e |-> -43],
  [m |-> <<0,0,0,250>>, e |-> -43],
  [m |-> <<15771,19294,8267,140>>, e |-> -42],
  [m |-> <<15649,15948,11982,157>>, e |-> -42]>>

MathPow10(db) == PowTable[db]

(***************************************************************************)
(* calculator.js                                                           *)
(***************************************************************************)
CROSSOVER_TYPES ==
  [BUTTERWORTH_1ST |-> "1st Order Butterworth",
   BUTTERWORTH_2ND |-> "2nd Order Butterworth",
   LINKWITZ_RILEY_2ND |-> "2nd Order Linkwitz-Riley",
   BESSEL_2ND |-> "2nd Order Bessel",
   BUTTERWORTH_3RD |-> "3rd Order Butterworth",
   LINKWITZ_RILEY_4TH |-> "4th Order Linkwitz-Riley"]

\* { name: ..., value: x.toFixed(2), unit: ... }
Component(name, x, unit) == [name |-> name, value |-> toFixed2(x), unit |-> unit]

\* case CROSSOVER_TYPES.BUTTERWORTH_1ST
Butterworth1st(rh, rl, omega) ==
  LET c1_1 == Div(Num(1), Mul(omega, rh))
      l1_1 == Div(rl, omega)
  IN  [highPass |-> <<Component("C1", Mul(c1_1, Num(1000000)), "uF")>>,
       lowPass |-> <<Component("L1", Mul(l1_1, Num(1000)), "mH")>>]

\* Butterworth2nd with omega left out of the capacitors
Butterworth2nd_noOmega(rh, rl, omega) ==
  LET sqrt2 == Sqrt2
      c1_2b == Div(Num(1), Mul(sqrt2, rh))
      l1_2b == Div(rh, Mul(sqrt2, omega))
      c2_2b == Div(Num(1), Mul(sqrt2, rl))
      l2_2b == Div(rl, Mul(sqrt2, omega))
  IN  [highPass |-> <<Component("C1", Mul(c1_2b, Num(1000000)), "uF"),
                      Component("L1", Mul(l1_2b, Num(1000)), "mH")>>,
       lowPass |-> <<Component("C2", Mul(c2_2b, Num(1000000)), "uF"),
                     Component("L2", Mul(l2_2b, Num(1000)), "mH")>>]

\* case CROSSOVER_TYPES.BUTTERWORTH_2ND
Butterworth2nd(rh, rl, omega) ==
  LET sqrt2 == Sqrt2
      c1_2b == Div(Num(1), Mul(Mul(sqrt2, omega), rh))
      l1_2b == Div(rh, Mul(sqrt2, omega))
      c2_2b == Div(Num(1), Mul(Mul(sqrt2, omega), rl))
      l2_2b == Div(rl, Mul(sqrt2, omega))
  IN  [highPass |-> <<Component("C1", Mul(c1_2b, Num(1000000)), "uF"),
                      Component("L1", Mul(l1_2b, Num(1000)), "mH")>>,
       lowPass |-> <<Component("C2", Mul(c2_2b, Num(1000000)), "uF"),
                     Component("L2", Mul(l2_2b, Num(1000)), "mH")>>]

\* case CROSSOVER_TYPES.LINKWITZ_RILEY_2ND
LinkwitzRiley2nd(rh, rl, omega) ==
  LET c1_lr == Div(Num(1), Mul(Mul(Num(2), omega), rh))
      l1_lr == Div(rh, Mul(Dec(5, 10), omega))
      c2_lr == Div(Num(1), Mul(Mul(Num(2), omega), rl))
      l2_lr == Div(rl, Mul(Dec(5, 10), omega))
  IN  [highPass |-> <<Component("C1", Mul(c1_lr, Num(1000000)), "uF"),
                      Component("L1", Mul(l1_lr, Num(1000)), "mH")>>,
       lowPass |-> <<Component("C2", Mul(c2_lr, Num(1000000)), "uF"),
                     Component("L2", Mul(l2_lr, Num(1000)), "mH")>>]

\* case CROSSOVER_TYPES.BESSEL_2ND
Bessel2nd(rh, rl, omega) ==
  LET sqrt3 == Sqrt3
      c1_bs == Div(Num(1), Mul(Mul(sqrt3, omega), rh))
      l1_bs == Div(Mul(sqrt3, rh), omega)
      c2_bs == Div(Num(1), Mul(Mul(sqrt3, omega), rl))
      l2_bs == Div(Mul(sqrt3, rl), omega)
  IN  [highPass |-> <<Component("C1", Mul(c1_bs, Num(1000000)), "uF"),
                      Component("L1", Mul(l1_bs, Num(1000)), "mH")>>,
       lowPass |-> <<Component("C2", Mul(c2_bs, Num(1000000)), "uF"),
                     Component("L2", Mul(l2_bs, Num(1000)), "mH")>>]

\* Butterworth3rd with the high-pass parts listed capacitors first
Butterworth3rd_capsFirst(rh, rl, omega) ==
  [highPass |->
     <<Component("C1", Div(Num(1000000), Mul(Mul(Dec(15, 10), omega), rh)), "uF"),
       Component("C3", Div(Num(1000000), Mul(Mul(Dec(5, 10), omega), rh)), "uF"),
       Component("L2", Mul(Num(1000), Div(rh, Mul(Dec(1333, 1000), omega))), "mH")>>,
   lowPass |->
     <<Component("L1", Mul(Num(1000), Div(Mul(Dec(15, 10), rl), omega)), "mH"),
       Component("C2", Div(Num(1000000), Mul(Mul(Dec(1333, 1000), omega), rl)), "uF"),
       Component("L3", Mul(Num(1000), Div(Mul(Dec(5, 10), rl), omega)), "mH")>>]

\* case CROSSOVER_TYPES.BUTTERWORTH_3RD
Butterworth3rd(rh, rl, omega) ==
  [highPass |->
     <<Component("C1", Div(Num(1000000), Mul(Mul(Dec(15, 10), omega), rh)), "uF"),
       Component("L2", Mul(Num(1000), Div(rh, Mul(Dec(1333, 1000), omega))), "mH"),
       Component("C3", Div(Num(1000000), Mul(Mul(Dec(5, 10), omega), rh)), "uF")>>,
   lowPass |->
     <<Component("L1", Mul(Num(1000), Div(Mul(Dec(15, 10), rl), omega)), "mH"),
       Component("C2", Div(Num(1000000), Mul(Mul(Dec(1333, 1000), omega), rl)), "uF"),
       Component("L3", Mul(Num(1000), Div(Mul(Dec(5, 10), rl), omega)), "mH")>>]

\* LinkwitzRiley4th with the constants of L1 and L2 exchanged
LinkwitzRiley4th_swapped(rh, rl, f) ==
  [highPass |->
     <<Component("C1", Div(Num(84400), Mul(f, rh)), "uF"),
       Component("C2", Div(Num(168800), Mul(f, rh)), "uF"),
       Component("L3", Div(Mul(Num(100), rh), f), "mH"),
       Component("L4", Div(Mul(Num(200), rh), f), "mH")>>,
   lowPass |->
     <<Component("L1", Div(Mul(Num(159), rl), f), "mH"),
       Component("L2", Div(Mul(Num(318), rl), f), "mH"),
       Component("C3", Div(Num(212000), Mul(f, rl)), "uF"),
       Component("C4", Div(Num(106000), Mul(f, rl)), "uF")>>]

\* case CROSSOVER_TYPES.LINKWITZ_RILEY_4TH
LinkwitzRiley4th(rh, rl, f) ==
  [highPass |->
     <<Component("C1", Div(Num(84400), Mul(f, rh)), "uF"),
       Component("C2", Div(Num(168800), Mul(f, rh)), "uF"),
       Component("L3", Div(Mul(Num(100), rh), f), "mH"),
       Component("L4", Div(Mul(Num(200), rh), f), "mH")>>,
   lowPass |->
     <<Component("L1", Div(Mul(Num(318), rl), f), "mH"),
       Component("L2", Div(Mul(Num(159), rl), f), "mH"),
       Component("C3", Div(Num(212000), Mul(f, rl)), "uF"),
       Component("C4", Div(Num(106000), Mul(f, rl)), "uF")>>]

\* calculateCrossover whose switch falls back to its first case
calculateCrossover_defaultFirst(rh, rl, f, type) ==
  LET pi == MathPI
      omega == Mul(Mul(Num(2), pi), f)
  IN  CASE type = CROSSOVER_TYPES.BUTTERWORTH_2ND -> Butterworth2nd(rh, rl, omega)
        [] type = CROSSOVER_TYPES.LINKWITZ_RILEY_2ND -> LinkwitzRiley2nd(rh, rl, omega)
        [] type = CROSSOVER_TYPES.BESSEL_2ND -> Bessel2nd(rh, rl, omega)
        [] type = CROSSOVER_TYPES.BUTTERWORTH_3RD -> Butterworth3rd(rh, rl, omega)
        [] type = CROSSOVER_TYPES.LINKWITZ_RILEY_4TH -> LinkwitzRiley4th(rh, rl, f)
        [] OTHER -> Butterworth1st(rh, rl, omega)

calculateCrossover(rh, rl, f, type) ==
  LET pi == MathPI
      omega == Mul(Mul(Num(2), pi), f)
  IN  CASE type = CROSSOVER_TYPES.BUTTERWORTH_1ST -> Butterworth1st(rh, rl, omega)
        [] type = CROSSOVER_TYPES.BUTTERWORTH_2ND -> Butterworth2nd(rh, rl, omega)
        [] type = CROSSOVER_TYPES.LINKWITZ_RILEY_2ND -> LinkwitzRiley2nd(rh, rl, omega)
        [] type = CROSSOVER_TYPES.BESSEL_2ND -> Bessel2nd(rh, rl, omega)
        [] type = CROSSOVER_TYPES.BUTTERWORTH_3RD -> Butterworth3rd(rh, rl, omega)
        [] type = CROSSOVER_TYPES.LINKWITZ_RILEY_4TH -> LinkwitzRiley4th(rh, rl, f)
        [] OTHER -> [highPass |-> <<>>, lowPass |-> <<>>]

\* calculateLPad with k and k - 1 exchanged in r1
calculateLPad_swapped(rh, db) ==
  LET k == MathPow10(db)
      r1 == Div(Mul(rh, k), Sub(k, Num(1)))
      r2 == Div(rh, Sub(k, Num(1)))
  IN  [r1 |-> toFixed2(r1), r2 |-> toFixed2(r2)]

calculateLPad(rh, db) ==
  LET k == MathPow10(db)
      r1 == Div(Mul(rh, Sub(k, Num(1))), k)
      r2 == Div(rh, Sub(k, Num(1)))
  IN  [r1 |-> toFixed2(r1), r2 |-> toFixed2(r2)]

\* calculate3Way whose midrange low-pass is taken at flz as well
calculate3Way_oneFrequency(rw, rm, rt, flz, fhz, type) ==
  LET woofer == calculateCrossover(rw, rw, flz, type).lowPass
      tweeter == calculateCrossover(rt, rt, fhz, type).highPass
      midHP == calculateCrossover(rm, rm, flz, type).highPass
      midLP == calculateCrossover(rm, rm, flz, type).lowPass
  IN  [woofer |-> woofer, midrange |-> midHP \o midLP, tweeter |-> tweeter]

calculate3Way(rw, rm, rt, flz, fhz, type) ==
  LET woofer == calculateCrossover(rw, rw, flz, type).lowPass
      tweeter == calculateCrossover(rt, rt, fhz, type).highPass
      midHP == calculateCrossover(rm, rm, flz, type).highPass
      midLP == calculateCrossover(rm, rm, fhz, type).lowPass
  IN  [woofer |-> woofer, midrange |-> midHP \o midLP, tweeter |-> tweeter]

\* the fixed text the three messages begin with; a message is the text
\* followed by the numbers it embeds
MsgCritical == "CRITICAL: Crossover frequency is less than 2x Tweeter Fs"

MsgCaution == "Caution: Crossover frequency is close to Tweeter resonance"

MsgDanger == "DANGER: 1st-order slope is very shallow"

SlopeHazardHz == 3000

\* validateSafety with the second frequency rule not chained by else
validateSafety_noElse(rh, rl, f, fs, type) ==
  LET first ==
        IF Truthy(fs) /\ Less(f, Mul(Num(2), fs))
        THEN <<[type |-> "hazard",
                message |-> <<MsgCritical, f, fs>>]>>
        ELSE <<>>
      second ==
        IF Truthy(fs) /\ Less(f, Mul(Dec(25, 10), fs))
        THEN <<[type |-> "warning",
                message |-> <<MsgCaution>>]>>
        ELSE <<>>
      slope ==
        IF type = CROSSOVER_TYPES.BUTTERWORTH_1ST /\ Less(f, Num(SlopeHazardHz))
        THEN <<[type |-> "hazard",
                message |-> <<MsgDanger, f>>]>>
        ELSE <<>>
  IN  first \o second \o slope

\* validateSafety whose slope rule takes f <= 3000
validateSafety_inclusive(rh, rl, f, fs, type) ==
  LET fcVsFs ==
        IF Truthy(fs) /\ Less(f, Mul(Num(2), fs))
        THEN <<[type |-> "hazard",
                message |-> <<MsgCritical, f, fs>>]>>
        ELSE IF Truthy(fs) /\ Less(f, Mul(Dec(25, 10), fs))
        THEN <<[type |-> "warning",
                message |-> <<MsgCaution>>]>>
        ELSE <<>>
      slope ==
        IF type = CROSSOVER_TYPES.BUTTERWORTH_1ST /\ ~Less(Num(SlopeHazardHz), f)
        THEN <<[type |-> "hazard",
                message |-> <<MsgDanger, f>>]>>
        ELSE <<>>
  IN  fcVsFs \o slope

validateSafety(rh, rl, f, fs, type) ==
  LET fcVsFs ==
        IF Truthy(fs) /\ Less(f, Mul(Num(2), fs))
        THEN <<[type |-> "hazard",
                message |-> <<MsgCritical, f, fs>>]>>
        ELSE IF Truthy(fs) /\ Less(f, Mul(Dec(25, 10), fs))
        THEN <<[type |-> "warning",
                message |-> <<MsgCaution>>]>>
        ELSE <<>>
      slope ==
        IF type = CROSSOVER_TYPES.BUTTERWORTH_1ST /\ Less(f, Num(SlopeHazardHz))
        THEN <<[type |-> "hazard",
                message |-> <<MsgDanger, f>>]>>
        ELSE <<>>
  IN  fcVsFs \o slope

(***************************************************************************)
(* The earlier variant of the module: four topologies, written with        *)
(* explicit 2 * pi * f terms; its 3-way composer takes no topology.        *)
(***************************************************************************)
CROSSOVER_TYPES_part000 ==
  [BUTTERWORTH_1ST |-> "1st Order Butterworth",
   BUTTERWORTH_2ND |-> "2nd Order Butterworth",
   LINKWITZ_RILEY_2ND |-> "2nd Order Linkwitz-Riley",
   BESSEL_2ND |-> "2nd Order Bessel"]

Butterworth1st_part000(rh, rl, f, pi) ==
  LET c1_1 == Div(Num(1), Mul(Mul(Mul(Num(2), pi), rh), f))
      l1_1 == Div(rl, Mul(Mul(Num(2), pi), f))
  IN  [highPass |-> <<Component("C1", Mul(c1_1, Num(1000000)), "uF")>>,
       lowPass |-> <<Component("L1", Mul(l1_1, Num(1000)), "mH")>>]

Butterworth2nd_part000(rh, rl, f, pi) ==
  LET sqrt2 == Sqrt2
      c1_2b == Div(Num(1), Mul(Mul(Mul(Mul(Num(2), sqrt2), pi), rh), f))
      l1_2b == Div(rh, Mul(Mul(Mul(Num(2), sqrt2), pi), f))
      c2_2b == Div(Num(1), Mul(Mul(Mul(Mul(Num(2), sqrt2), pi), rl), f))
      l2_2b == Div(rl, Mul(Mul(Mul(Num(2), sqrt2), pi), f))
  IN  [highPass |-> <<Component("C1", Mul(c1_2b, Num(1000000)), "uF"),
                      Component("L1", Mul(l1_2b, Num(1000)), "mH")>>,
       lowPass |-> <<Component("C2", Mul(c2_2b, Num(1000000)), "uF"),
                     Component("L2", Mul(l2_2b, Num(1000)), "mH")>>]

\* LinkwitzRiley2nd_part000 whose inductors divide by 2 * pi * f
LinkwitzRiley2nd_part000_twoPi(rh, rl, f, pi) ==
  LET c1_lr == Div(Num(1), Mul(Mul(Mul(Num(4), pi), rh), f))
      l1_lr == Div(rh, Mul(Mul(Num(2), pi), f))
      c2_lr == Div(Num(1), Mul(Mul(Mul(Num(4), pi), rl), f))
      l2_lr == Div(rl, Mul(Mul(Num(2), pi), f))
  IN  [highPass |-> <<Component("C1", Mul(c1_lr, Num(1000000)), "uF"),
                      Component("L1", Mul(l1_lr, Num(1000)), "mH")>>,
       lowPass |-> <<Component("C2", Mul(c2_lr, Num(1000000)), "uF"),
                     Component("L2", Mul(l2_lr, Num(1000)), "mH")>>]

LinkwitzRiley2nd_part000(rh, rl, f, pi) ==
  LET c1_lr == Div(Num(1), Mul(Mul(Mul(Num(4), pi), rh), f))
      l1_lr == Div(rh, Mul(pi, f))
      c2_lr == Div(Num(1), Mul(Mul(Mul(Num(4), pi), rl), f))
      l2_lr == Div(rl, Mul(pi, f))
  IN  [highPass |-> <<Component("C1", Mul(c1_lr, Num(1000000)), "uF"),
                      Component("L1", Mul(l1_lr, Num(1000)), "mH")>>,
       lowPass |-> <<Component("C2", Mul(c2_lr, Num(1000000)), "uF"),
                     Component("L2", Mul(l2_lr, Num(1000)), "mH")>>]

Bessel2nd_part000(rh, rl, f, pi) ==
  LET sqrt3 == Sqrt3
      c1_bs == Div(Num(1), Mul(Mul(Mul(Mul(Num(2), sqrt3), pi), rh), f))
      l1_bs == Div(Mul(sqrt3, rh), Mul(Mul(Num(2), pi), f))
      c2_bs == Div(Num(1), Mul(Mul(Mul(Mul(Num(2), sqrt3), pi), rl), f))
      l2_bs == Div(Mul(sqrt3, rl), Mul(Mul(Num(2), pi), f))
  IN  [highPass |-> <<Component("C1", Mul(c1_bs, Num(1000000)), "uF"),
                      Component("L1", Mul(l1_bs, Num(1000)), "mH")>>,
       lowPass |-> <<Component("C2", Mul(c2_bs, Num(1000000)), "uF"),
                     Component("L2", Mul(l2_bs, Num(1000)), "mH")>>]

calculateCrossover_part000(rh, rl, f, type) ==
  LET pi == MathPI
  IN  CASE type = CROSSOVER_TYPES_part000.BUTTERWORTH_1ST ->
             Butterworth1st_part000(rh, rl, f, pi)
        [] type = CROSSOVER_TYPES_part000.BUTTERWORTH_2ND ->
             Butterworth2nd_part000(rh, rl, f, pi)
        [] type = CROSSOVER_TYPES_part000.LINKWITZ_RILEY_2ND ->
             LinkwitzRiley2nd_part000(rh, rl, f, pi)
        [] type = CROSSOVER_TYPES_part000.BESSEL_2ND ->
             Bessel2nd_part000(rh, rl, f, pi)
        [] OTHER -> [highPass |-> <<>>, lowPass |-> <<>>]

calculate3Way_part000(rw, rm, rt, flz, fhz) ==
  LET woofer == calculateCrossover_part000(rw, rw, flz,
                  CROSSOVER_TYPES_part000.BUTTERWORTH_2ND).lowPass
      tweeter == calculateCrossover_part000(rt, rt, fhz,
                   CROSSOVER_TYPES_part000.BUTTERWORTH_2ND).highPass
      midHP == calculateCrossover_part000(rm, rm, flz,
                 CROSSOVER_TYPES_part000.BUTTERWORTH_2ND).highPass
      midLP == calculateCrossover_part000(rm, rm, fhz,
                 CROSSOVER_TYPES_part000.BUTTERWORTH_2ND).lowPass
  IN  [woofer |-> woofer, midrange |-> midHP \o midLP, tweeter |-> tweeter]

(***************************************************************************)
(* The interpreter: Run(<<name, arguments...>>) is what the call returns.  *)
(* Its entries are the operators of the arithmetic unit and the functions  *)
(* the modules export.                                                     *)
(***************************************************************************)
Run(w) ==
  CASE w[1] = "BNorm" ->
         LET a == w[2]
         IN  IF a = <<>> THEN a
             ELSE IF a[Len(a)] = 0 THEN BNorm(SubSeq(a, 1, Len(a) - 1)) ELSE a
    [] w[1] = "BOfInt" ->
         LET n == w[2]
         IN  IF n = 0 THEN <<>> ELSE <<n % Base>> \o BOfInt(n \div Base)
    [] w[1] = "BToInt" ->
         LET a == w[2]
         IN  IF a = <<>> THEN 0 ELSE Head(a) + Base * BToInt(Tail(a))
    [] w[1] = "BAddC" ->
         LET a == w[2]
             b == w[3]
             c == w[4]
             x == (IF a = <<>> THEN 0 ELSE Head(a))
                  + (IF b = <<>> THEN 0 ELSE Head(b)) + c
         IN  IF a = <<>> /\ b = <<>> THEN (IF c = 0 THEN <<>> ELSE <<c>>)
             ELSE <<x % Base>> \o BAddC(IF a = <<>> THEN a ELSE Tail(a),
                                        IF b = <<>> THEN b ELSE Tail(b),
                                        x \div Base)
    [] w[1] = "BSubC" ->
         LET a == w[2]
             b == w[3]
             c == w[4]
             x == Head(a) - (IF b = <<>> THEN 0 ELSE Head(b)) - c
         IN  IF a = <<>> THEN <<>>
             ELSE <<IF x < 0 THEN x + Base ELSE x>>
                    \o BSubC(Tail(a), IF b = <<>> THEN b ELSE Tail(b),
                             IF x < 0 THEN 1 ELSE 0)
    [] w[1] = "BCmpFrom" ->
         LET a == w[2]
             b == w[3]
             i == w[4]
         IN  IF i = 0 THEN 0
             ELSE IF a[i] > b[i] THEN 1
             ELSE IF a[i] < b[i] THEN -1
             ELSE BCmpFrom(a, b, i - 1)
    [] w[1] = "BCmp" ->
         LET a == w[2]
             b == w[3]
         IN  IF Len(a) > Len(b) THEN 1
             ELSE IF Len(a) < Len(b) THEN -1
             ELSE BCmpFrom(a, b, Len(a))
    [] w[1] = "BMulSmall" ->
         LET a == w[2]
             s == w[3]
             c == w[4]
             x == Head(a) * s + c
         IN  IF a = <<>> THEN (IF c = 0 THEN <<>> ELSE <<c>>)
             ELSE <<x % Base>> \o BMulSmall(Tail(a), s, x \div Base)
    [] w[1] = "BShiftLimbs" ->
         LET a == w[2]
             n == w[3]
         IN  IF a = <<>> THEN a ELSE [i \in 1..n |-> 0] \o a
    [] w[1] = "BMul" ->
         LET a == w[2]
             b == w[3]
         IN  IF b = <<>> \/ a = <<>> THEN <<>>
             ELSE BAdd(BNorm(BMulSmall(a, Head(b), 0)),
                       BShiftLimbs(BMul(a, Tail(b)), 1))
    [] w[1] = "IntBitLen" ->
         LET n == w[2]
         IN  IF n = 0 THEN 0 ELSE 1 + IntBitLen(n \div 2)
    [] w[1] = "BBitLen" ->
         LET a == w[2]
         IN  IF a = <<>> THEN 0 ELSE 15 * (Len(a) - 1) + IntBitLen(a[Len(a)])
    [] w[1] = "BShl" ->
         LET a == w[2]
             k == w[3]
         IN  BShiftLimbs(BNorm(BMulSmall(a, 2 ^ (k % 15), 0)), k \div 15)
    [] w[1] = "BShr" ->
         LET a == w[2]
             k == w[3]
             drop == k \div 15
             r == k % 15
             n == Len(a) - drop
             b == SubSeq(a, drop + 1, Len(a))
         IN  IF n <= 0 THEN <<>>
             ELSE BNorm([i \in 1..n |->
                           (b[i] \div (2 ^ r))
                           + (IF i < n THEN (b[i + 1] % (2 ^ r)) * (2 ^ (15 - r))
                              ELSE 0)])
    [] w[1] = "BBit" ->
         LET a == w[2]
             k == w[3]
             i == k \div 15 + 1
         IN  IF i > Len(a) THEN 0 ELSE (a[i] \div (2 ^ (k % 15))) % 2
    [] w[1] = "BLowZero" ->
         LET a == w[2]
             k == w[3]
             full == k \div 15
         IN  /\ \A i \in 1..Min(full, Len(a)) : a[i] = 0
             /\ (full + 1 <= Len(a) => a[full + 1] % (2 ^ (k % 15)) = 0)
    [] w[1] = "BDivCorrect" ->
         LET r == w[2]
             d == w[3]
             q0 == w[4]
             p == BNorm(BMulSmall(d, q0, 0))
         IN  IF BCmp(p, r) = 1 THEN BDivCorrect(r, d, q0 - 1)
             ELSE <<q0, BSub(r, p)>>
    [] w[1] = "BDivDigit" ->
         LET r == w[2]
             d == w[3]
             n == Len(d)
             top == (IF Len(r) > n THEN r[n + 1] ELSE 0) * Base
                    + (IF Len(r) >= n THEN r[n] ELSE 0)
         IN  BDivCorrect(r, d, Min(Base - 1, top \div d[n]))
    [] w[1] = "BDivFrac" ->
         LET r == w[2]
             d == w[3]
             k == w[4]
             q == w[5]
             s == BDivDigit(BShiftLimbs(r, 1), d)
         IN  IF k = 0 THEN <<BNorm(q), r>>
             ELSE BDivFrac(s[2], d, k - 1, <<s[1]>> \o q)
    [] w[1] = "RoundDouble" ->
         LET N == w[2]
             e == w[3]
             sticky == w[4]
             L == BBitLen(N)
             s == L - 53
             q == BShr(N, s)
             half == BBit(N, s - 1) = 1
             rest == sticky \/ ~BLowZero(N, s - 1)
             up == half /\ (rest \/ q[1] % 2 = 1)
             q1 == IF up THEN BAdd(q, <<1>>) ELSE q
         IN  IF L <= 53 THEN [m |-> BShl(N, 53 - L), e |-> e - (53 - L)]
             ELSE IF BBitLen(q1) = 54
                  THEN [m |-> BShr(q1, 1), e |-> e + s + 1]
                  ELSE [m |-> q1, e |-> e + s]
    [] w[1] = "Mul" ->
         LET x == w[2]
             y == w[3]
         IN  RoundDouble(BMul(x.m, y.m), x.e + y.e, FALSE)
    [] w[1] = "Div" ->
         \* both mantissas shifted so that the divisor's top limb is at least
         \* Base / 2; the quotient is taken to 60 bits past the point
         LET x == w[2]
             y == w[3]
             d == BShl(y.m, 7)
             n == BShl(x.m, 7)
             first == IF BCmp(n, d) = -1 THEN 0 ELSE 1
             r0 == IF first = 1 THEN BSub(n, d) ELSE n
             qr == BDivFrac(r0, d, 4, <<>>)
             q == IF first = 1 THEN BAdd(qr[1], <<0, 0, 0, 0, 1>>) ELSE qr[1]
         IN  RoundDouble(q, x.e - y.e - 60, qr[2] # <<>>)
    [] w[1] = "Less" ->
         LET x == w[2]
             y == w[3]
         IN  IF x.e # y.e THEN x.e < y.e ELSE BCmp(x.m, y.m) = -1
    [] w[1] = "Sub" ->
         LET x == w[2]
             y == w[3]
         IN  RoundDouble(BSub(BShl(x.m, x.e - y.e), y.m), y.e, FALSE)
    [] w[1] = "toFixed2" ->
         LET x == w[2]
         IN  IF x.e >= 0 THEN BToInt(BShl(BMulSmall(x.m, 100, 0), x.e))
             ELSE BToInt(BShr(BAdd(BNorm(BMulSmall(x.m, 200, 0)),
                                   BShl(<<1>>, -x.e)),
                              1 - x.e))
    [] w[1] = "calculateCrossover" -> calculateCrossover(w[2], w[3], w[4], w[5])
    [] w[1] = "calculateCrossover_part000" ->
         calculateCrossover_part000(w[2], w[3], w[4], w[5])
    [] w[1] = "calculate3Way" -> calculate3Way(w[2], w[3], w[4], w[5], w[6], w[7])
    [] w[1] = "calculate3Way_part000" ->
         calculate3Way_part000(w[2], w[3], w[4], w[5], w[6])
    [] w[1] = "validateSafety" -> validateSafety(w[2], w[3], w[4], w[5], w[6])
    [] w[1] = "calculateLPad" -> calculateLPad(w[2], w[3])

(***************************************************************************)
(* The calls checked: a caller has called fn with args (pc = "called");    *)
(* the function runs and returns ret (pc = "returned").                    *)
(***************************************************************************)
VARIABLES fn, args, pc, ret

vars == <<fn, args, pc, ret>>

MaxOhmSteps == 2

MaxFreqSteps == 6

Max3WayFreqSteps == 2

MaxFsSteps == 3

MaxDb == 60

\* driver impedances: 4, 8, ... ohms
Ohms == {Num(4 * i) : i \in 1..MaxOhmSteps}

\* 1273.239544735163: with f = 1000 the exact 1st-order C1 is a hair under
\* 0.125 uF, and the computed product omega * rh decides the last digit
BoundaryOhms == [m |-> <<3537, 5742, 5077, 159>>, e |-> -42]

\* crossover frequencies: 500, 1000, ... Hz
Freqs == {Num(500 * i) : i \in 1..MaxFreqSteps}

\* the two crossover points of a 3-way network, in either order
Freqs3Way == {Num(1500 * i) : i \in 1..Max3WayFreqSteps}

\* tweeter resonance: not passed, 0, or 500, 1000, ... Hz
Resonances == {Undefined, Zero} \cup {Num(500 * i) : i \in 1..MaxFsSteps}

TypeLabels == {CROSSOVER_TYPES[k] : k \in DOMAIN CROSSOVER_TYPES}

\* type values that are no label of the catalog
UnknownTypes == {"", "BUTTERWORTH_1ST"}

Types == TypeLabels \cup UnknownTypes

CrossoverArgs == [rh : Ohms \cup {BoundaryOhms}, rl : Ohms, f : Freqs, type : Types]

ThreeWayArgs ==
  [rw : Ohms, rm : Ohms, rt : Ohms, flz : Freqs3Way, fhz : Freqs3Way, type : Types]

ThreeWayArgs_part000 ==
  [rw : Ohms, rm : Ohms, rt : Ohms, flz : Freqs3Way, fhz : Freqs3Way]

SafetyArgs == [rh : Ohms, rl : Ohms, f : Freqs, fs : Resonances, type : Types]

LPadArgs == [rh : Ohms, db : 1..MaxDb]

Called(f, A) == fn = f /\ args \in A /\ pc = "called" /\ ret = <<>>

InitCrossover ==
  \/ Called("calculateCrossover", CrossoverArgs)
  \/ Called("calculateCrossover_part000", CrossoverArgs)

Init3Way ==
  \/ Called("calculate3Way", ThreeWayArgs)
  \/ Called("calculate3Way_part000", ThreeWayArgs_part000)

InitSafety == Called("validateSafety", SafetyArgs)

InitLPad == Called("calculateLPad", LPadArgs)

Init == InitCrossover \/ Init3Way \/ InitSafety \/ InitLPad

Return(f, r) ==
  /\ pc = "called"
  /\ fn = f
  /\ ret' = r
  /\ pc' = "returned"
  /\ UNCHANGED <<fn, args>>

CallCalculateCrossover ==
  /\ fn = "calculateCrossover"
  /\ Return("calculateCrossover",
            Run(<<"calculateCrossover", args.rh, args.rl, args.f, args.type>>))

CallCalculateCrossover_part000 ==
  /\ fn = "calculateCrossover_part000"
  /\ Return("calculateCrossover_part000",
            Run(<<"calculateCrossover_part000", args.rh, args.rl, args.f, args.type>>))

CallCalculate3Way ==
  /\ fn = "calculate3Way"
  /\ Return("calculate3Way",
            Run(<<"calculate3Way", args.rw, args.rm, args.rt, args.flz, args.fhz,
                  args.type>>))

CallCalculate3Way_part000 ==
  /\ fn = "calculate3Way_part000"
  /\ Return("calculate3Way_part000",
            Run(<<"calculate3Way_part000", args.rw, args.rm, args.rt, args.flz,
                  args.fhz>>))

CallValidateSafety ==
  /\ fn = "validateSafety"
  /\ Return("validateSafety",
            Run(<<"validateSafety", args.rh, args.rl, args.f, args.fs, args.type>>))

CallCalculateLPad ==
  /\ fn = "calculateLPad"
  /\ Return("calculateLPad", Run(<<"calculateLPad", args.rh, args.db>>))

NextCrossover == CallCalculateCrossover \/ CallCalculateCrossover_part000

Next3Way == CallCalculate3Way \/ CallCalculate3Way_part000

NextSafety == CallValidateSafety

NextLPad == CallCalculateLPad

Next == NextCrossover \/ Next3Way \/ NextSafety \/ NextLPad

SpecCrossover == InitCrossover /\ [][NextCrossover]_vars

Spec3Way == Init3Way /\ [][Next3Way]_vars

SpecSafety == InitSafety /\ [][NextSafety]_vars

SpecLPad == InitLPad /\ [][NextLPad]_vars

Spec == Init /\ [][Next]_vars

(***************************************************************************)
(* The claims.  A claim about a function is stated of the states in which  *)
(* a call of it has returned.                                              *)
(***************************************************************************)
Returned(f) == fn = f /\ pc = "returned"

EmptyResult == [highPass |-> <<>>, lowPass |-> <<>>]

TypeLabels_part000 ==
  {CROSSOVER_TYPES_part000[k] : k \in DOMAIN CROSSOVER_TYPES_part000}

Names(list) == [i \in 1..Len(list) |-> list[i].name]

\* an integer number of hertz or ohms, from the double that holds it
Whole(x) == toFixed2(x) \div 100

Abs(n) == IF n < 0 THEN -n ELSE n

\* C1: for every type value that is no topology label of the catalog,
\* calculateCrossover returns a result whose highPass and lowPass lists are
\* both empty (in the six-topology module and in the four-topology one).
UnknownTypeReturnsEmpty ==
  /\ (Returned("calculateCrossover") /\ args.type \notin TypeLabels)
       => ret = EmptyResult
  /\ (Returned("calculateCrossover_part000") /\ args.type \notin TypeLabels_part000)
       => ret = EmptyResult

\* a call with the key of a topology in place of its label has returned
UnknownTypeReturned ==
  /\ Returned("calculateCrossover")
  /\ args.type = "BUTTERWORTH_1ST"
  /\ ret.highPass = <<>>
  /\ ret.lowPass = <<>>

\* C2: calculate3Way returns the woofer's low-pass at flz, the tweeter's
\* high-pass at fhz, and as midrange the high-pass at flz followed by the
\* low-pass at fhz, all of the topology passed, whatever the order of flz and
\* fhz; the midrange is as long as its two segments together.  The earlier
\* composer does the same with the 2nd-order Butterworth topology.
ThreeWayComposition ==
  /\ Returned("calculate3Way") =>
       LET w == calculateCrossover(args.rw, args.rw, args.flz, args.type)
           t == calculateCrossover(args.rt, args.rt, args.fhz, args.type)
           mh == calculateCrossover(args.rm, args.rm, args.flz, args.type)
           ml == calculateCrossover(args.rm, args.rm, args.fhz, args.type)
       IN  /\ ret.woofer = w.lowPass
           /\ ret.tweeter = t.highPass
           /\ ret.midrange = mh.highPass \o ml.lowPass
           /\ Len(ret.midrange) = Len(mh.highPass) + Len(ml.lowPass)
  /\ Returned("calculate3Way_part000") =>
       LET b2 == CROSSOVER_TYPES_part000.BUTTERWORTH_2ND
           w == calculateCrossover_part000(args.rw, args.rw, args.flz, b2)
           t == calculateCrossover_part000(args.rt, args.rt, args.fhz, b2)
           mh == calculateCrossover_part000(args.rm, args.rm, args.flz, b2)
           ml == calculateCrossover_part000(args.rm, args.rm, args.fhz, b2)
       IN  /\ ret.woofer = w.lowPass
           /\ ret.tweeter = t.highPass
           /\ ret.midrange = mh.highPass \o ml.lowPass

\* a 3-way network whose lower crossover point lies above the upper one and
\* whose drivers differ has been composed
ThreeWayCrossedPoints ==
  /\ Returned("calculate3Way")
  /\ Less(args.fhz, args.flz)
  /\ args.rw # args.rm
  /\ args.type = CROSSOVER_TYPES.BUTTERWORTH_3RD
  /\ Len(ret.midrange) = 6
  /\ ret.woofer # ret.midrange

\* the entries of a validateSafety result, by rule
FrequencyHazards ==
  {i \in DOMAIN ret : ret[i].type = "hazard" /\ ret[i].message[1] = MsgCritical}

FrequencyCautions ==
  {i \in DOMAIN ret : ret[i].type = "warning" /\ ret[i].message[1] = MsgCaution}

SlopeHazards ==
  {i \in DOMAIN ret : ret[i].type = "hazard" /\ ret[i].message[1] = MsgDanger}

FsProvided == Truthy(args.fs)

\* C3: validateSafety emits at most one frequency-related entry: the hazard
\* exactly when fs is provided and f < 2 fs, the warning exactly when fs is
\* provided and 2 fs <= f < 2.5 fs, none otherwise; never both; and the
\* frequency-related entry comes before the slope entry.
FrequencyRules ==
  Returned("validateSafety") =>
    LET f == Whole(args.f)
        fs == IF FsProvided THEN Whole(args.fs) ELSE 0
    IN  /\ Cardinality(FrequencyHazards \cup FrequencyCautions) <= 1
        /\ (FrequencyHazards # {}) <=> (FsProvided /\ f < 2 * fs)
        /\ (FrequencyCautions # {}) <=> (FsProvided /\ 2 * fs <= f /\ 2 * f < 5 * fs)
        /\ \A i \in FrequencyHazards \cup FrequencyCautions :
             \A j \in SlopeHazards : i < j

\* f is exactly twice fs and the topology is 1st order: the warning, then
\* the slope hazard
CautionThenSlope ==
  /\ Returned("validateSafety")
  /\ FsProvided
  /\ Whole(args.f) = 2 * Whole(args.fs)
  /\ Len(ret) = 2
  /\ FrequencyCautions = {1}
  /\ SlopeHazards = {2}

\* C4: validateSafety emits the slope hazard exactly when the topology is
\* 1st-order Butterworth and f < 3000, whatever the frequency rules gave;
\* nothing else produces an entry, so the result has at most two entries and
\* is empty when fs is absent or zero and the slope rule does not apply.
SlopeRule ==
  Returned("validateSafety") =>
    LET shallow == args.type = "1st Order Butterworth" /\ Whole(args.f) < 3000
    IN  /\ (SlopeHazards # {}) <=> shallow
        /\ Cardinality(SlopeHazards) <= 1
        /\ DOMAIN ret = FrequencyHazards \cup FrequencyCautions \cup SlopeHazards
        /\ Len(ret) <= 2
        /\ (~FsProvided /\ ~shallow) => ret = <<>>

\* no fs was passed and only the slope rule applied
SlopeHazardAlone ==
  /\ Returned("validateSafety")
  /\ args.fs = Undefined
  /\ args.type = "1st Order Butterworth"
  /\ Len(ret) = 1
  /\ SlopeHazards = {1}

(***************************************************************************)
(* The table of closed-form formulas.  A row is a component: its name, the *)
(* shape of its formula, the coefficient c (or the pre-scaled constant K   *)
(* of the 4th-order Linkwitz-Riley rows) and the impedance it takes.       *)
(* Capacitances are scaled by 10^6 (microfarads) and inductances by 10^3   *)
(* (millihenries); the 3rd-order Butterworth capacitances carry the scale  *)
(* in the numerator, 10^6/(c w R).                                         *)
(***************************************************************************)
Row(name, shape, c, r) == [name |-> name, shape |-> shape, c |-> c, r |-> r]

TableRows(type) ==
  CASE type = "1st Order Butterworth" ->
         [highPass |-> <<Row("C1", "1/(cwR)", Num(1), "Rh")>>,
          lowPass |-> <<Row("L1", "R/(cw)", Num(1), "Rl")>>]
    [] type = "2nd Order Butterworth" ->
         [highPass |-> <<Row("C1", "1/(cwR)", Sqrt2, "Rh"),
                         Row("L1", "R/(cw)", Sqrt2, "Rh")>>,
          lowPass |-> <<Row("C2", "1/(cwR)", Sqrt2, "Rl"),
                        Row("L2", "R/(cw)", Sqrt2, "Rl")>>]
    [] type = "2nd Order Linkwitz-Riley" ->
         [highPass |-> <<Row("C1", "1/(cwR)", Num(2), "Rh"),
                         Row("L1", "R/(cw)", Dec(5, 10), "Rh")>>,
          lowPass |-> <<Row("C2", "1/(cwR)", Num(2), "Rl"),
                        Row("L2", "R/(cw)", Dec(5, 10), "Rl")>>]
    [] type = "2nd Order Bessel" ->
         [highPass |-> <<Row("C1", "1/(cwR)", Sqrt3, "Rh"),
                         Row("L1", "cR/w", Sqrt3, "Rh")>>,
          lowPass |-> <<Row("C2", "1/(cwR)", Sqrt3, "Rl"),
                        Row("L2", "cR/w", Sqrt3, "Rl")>>]
    [] type = "3rd Order Butterworth" ->
         [highPass |-> <<Row("C1", "10^6/(cwR)", Dec(15, 10), "Rh"),
                         Row("L2", "R/(cw)", Dec(1333, 1000), "Rh"),
                         Row("C3", "10^6/(cwR)", Dec(5, 10), "Rh")>>,
          lowPass |-> <<Row("L1", "cR/w", Dec(15, 10), "Rl"),
                        Row("C2", "10^6/(cwR)", Dec(1333, 1000), "Rl"),
                        Row("L3", "cR/w", Dec(5, 10), "Rl")>>]
    [] type = "4th Order Linkwitz-Riley" ->
         [highPass |-> <<Row("C1", "K/(fR)", Num(84400), "Rh"),
                         Row("C2", "K/(fR)", Num(168800), "Rh"),
                         Row("L3", "KR/f", Num(100), "Rh"),
                         Row("L4", "KR/f", Num(200), "Rh")>>,
          lowPass |-> <<Row("L1", "KR/f", Num(318), "Rl"),
                        Row("L2", "KR/f", Num(159), "Rl"),
                        Row("C3", "K/(fR)", Num(212000), "Rl"),
                        Row("C4", "K/(fR)", Num(106000), "Rl")>>]

CapacitorNames == {"C1", "C2", "C3", "C4"}

InductorNames == {"L1", "L2", "L3", "L4"}

\* the row's value in microfarads or millihenries, evaluated in binary64 with
\* w = 2 pi f, and printed with two fractional digits
RowValue(row, rh, rl, f) ==
  LET R == IF row.r = "Rh" THEN rh ELSE rl
      w == Mul(Mul(Num(2), MathPI), f)
      c == row.c
  IN  CASE row.shape = "1/(cwR)" ->
             toFixed2(Mul(Div(Num(1), Mul(Mul(c, w), R)), Num(1000000)))
        [] row.shape = "10^6/(cwR)" ->
             toFixed2(Div(Num(1000000), Mul(Mul(c, w), R)))
        [] row.shape = "R/(cw)" ->
             toFixed2(Mul(Div(R, Mul(c, w)), Num(1000)))
        [] row.shape = "cR/w" ->
             toFixed2(Mul(Div(Mul(c, R), w), Num(1000)))
        [] row.shape = "K/(fR)" -> toFixed2(Div(c, Mul(f, R)))
        [] row.shape = "KR/f" -> toFixed2(Div(Mul(c, R), f))

ListPerTable(list, rows) ==
  /\ Len(list) = Len(rows)
  /\ \A i \in 1..Len(rows) :
       list[i].value = RowValue(rows[i], args.rh, args.rl, args.f)

\* C5: for each of the six topologies the component names, in order, are
\* those of the table, every C* component is in uF and every L* one in mH.
NamesAndUnitsPerTable ==
  (Returned("calculateCrossover") /\ args.type \in TypeLabels) =>
    /\ Names(ret.highPass) = Names(TableRows(args.type).highPass)
    /\ Names(ret.lowPass) = Names(TableRows(args.type).lowPass)
    /\ \A i \in 1..Len(ret.highPass \o ret.lowPass) :
         LET c == (ret.highPass \o ret.lowPass)[i]
         IN  /\ c.name \in CapacitorNames \cup InductorNames
             /\ c.name \in CapacitorNames => c.unit = "uF"
             /\ c.name \in InductorNames => c.unit = "mH"

\* a 4th-order Linkwitz-Riley network has been computed
FourthOrderReturned ==
  /\ Returned("calculateCrossover")
  /\ args.type = "4th Order Linkwitz-Riley"
  /\ Names(ret.highPass) = <<"C1", "C2", "L3", "L4">>
  /\ Names(ret.lowPass) = <<"L1", "L2", "C3", "C4">>

ModerateAttenuation == ~Less(Mul(Num(100), args.rh), MathPow10(args.db))

\* C7 as amended: the reported r1 is at most rh and the reported r2 at least
\* 0; r1 < rh and r2 > 0 as long as 10^(db/20) <= 100 rh.
LPadBounds ==
  Returned("calculateLPad") =>
    /\ ret.r1 <= toFixed2(args.rh)
    /\ ret.r2 >= 0
    /\ ModerateAttenuation => (ret.r1 < toFixed2(args.rh) /\ ret.r2 > 0)

\* an attenuation so deep that r1 is reported as rh and r2 as 0.00
LPadSaturated ==
  /\ Returned("calculateLPad")
  /\ args.rh = Num(4)
  /\ args.db = 60
  /\ ret = [r1 |-> 400, r2 |-> 0]

\* C7 as claimed: r1 < rh and r2 > 0 for every rh > 0 and db > 0.
LPadStrictBounds ==
  Returned("calculateLPad") => (ret.r1 < toFixed2(args.rh) /\ ret.r2 > 0)

SecondOrderTypes ==
  {"2nd Order Butterworth", "2nd Order Linkwitz-Riley", "2nd Order Bessel"}

\* the result of the same call at twice the frequency
AtDoubleFrequency ==
  calculateCrossover(args.rh, args.rl, Mul(Num(2), args.f), args.type)

\* every component of list2 is half the same-named component of list, give
\* or take slack hundredths on the doubled value
HalvedWithin(list2, list, slack) ==
  /\ Names(list2) = Names(list)
  /\ \A i \in 1..Len(list) : Abs(2 * list2[i].value - list[i].value) <= slack

\* C8 as amended: for the three 2nd-order topologies, every value returned at
\* 2 f is half the value returned at f up to the rounding of the two values:
\* twice the value at 2 f is within 0.01 of the value at f.
HalvedUpToRounding ==
  (Returned("calculateCrossover") /\ args.type \in SecondOrderTypes) =>
    /\ HalvedWithin(AtDoubleFrequency.highPass, ret.highPass, 1)
    /\ HalvedWithin(AtDoubleFrequency.lowPass, ret.lowPass, 1)

\* a value whose half has no two-digit form: twice the value returned at 2 f
\* is not the value returned at f
HalfRoundedAway ==
  /\ Returned("calculateCrossover")
  /\ args.type \in SecondOrderTypes
  /\ 2 * AtDoubleFrequency.highPass[1].value # ret.highPass[1].value

\* C8 as claimed: each component returned at 2 f is half the same-named
\* component returned at f.
HalvedExactly ==
  (Returned("calculateCrossover") /\ args.type \in SecondOrderTypes) =>
    /\ HalvedWithin(AtDoubleFrequency.highPass, ret.highPass, 0)
    /\ HalvedWithin(AtDoubleFrequency.lowPass, ret.lowPass, 0)

\* the other variant's result for the call made
OtherVariant ==
  IF fn = "calculateCrossover"
  THEN calculateCrossover_part000(args.rh, args.rl, args.f, args.type)
  ELSE calculateCrossover(args.rh, args.rl, args.f, args.type)

\* same names, units and order; values at most slack hundredths apart
SameComponents(a, b, slack) ==
  /\ Len(a) = Len(b)
  /\ \A i \in 1..Len(a) :
       /\ a[i].name = b[i].name
       /\ a[i].unit = b[i].unit
       /\ Abs(a[i].value - b[i].value) <= slack

VariantsAgree(slack) ==
  /\ (pc = "returned" /\ args.type \in TypeLabels_part000) =>
       /\ SameComponents(ret.highPass, OtherVariant.highPass, slack)
       /\ SameComponents(ret.lowPass, OtherVariant.lowPass, slack)
  /\ (Returned("calculateCrossover_part000") /\ args.type \notin TypeLabels_part000)
       => (ret = EmptyResult /\ (args.type \in TypeLabels => OtherVariant # EmptyResult))

\* C10 as amended: on the four shared topologies the two variants return the
\* same names, units and order, and values that are equal or differ by 0.01
\* (the last digit, at a rounding boundary); the four-topology variant
\* returns empty lists for the two topologies only the other one has.
VariantsAgreeUpToLastDigit == VariantsAgree(1)

\* an input at which the two variants print different last digits
VariantsDiffer ==
  /\ Returned("calculateCrossover")
  /\ args.rh = BoundaryOhms
  /\ args.type = "1st Order Butterworth"
  /\ ret.highPass[1].value = 13
  /\ OtherVariant.highPass[1].value = 12

\* C10 as claimed: on the four shared topologies the two variants return the
\* same names, units, order and values.
VariantsAgreeExactly == VariantsAgree(0)

====
